---------------------------- MODULE Spec2Model ----------------------------
(***************************************************************************)
(* open-sandboxes: SSHConnection (ssh_connection/base.py), Sandbox          *)
(* (sandbox.py) and PyprojectConfig (uv_config/config_pyproject.py).        *)
(*                                                                          *)
(* Text is a sequence of atoms.  The characters the shell gives a meaning   *)
(* to (space, newline, the two quotes, the backslash) are atoms of their    *)
(* own; every other atom is an opaque run of ordinary characters.  An       *)
(* optional Python argument is <<>> for None and <<v>> for a value v.       *)
(***************************************************************************)
EXTENDS Integers, Sequences, FiniteSets, TLC

VARIABLES conn, client, sandbox, call, remote

vars == <<conn, client, sandbox, call, remote>>

(***************************************************************************)
(* Bounds of the model.                                                     *)
(***************************************************************************)
MaxCalls == 3
MaxTextLen == 2
MaxDeps == 2

(***************************************************************************)
(* Atoms and sequence helpers.                                              *)
(***************************************************************************)
NL == "\n"
SQ == "'"
DQ == "\""
BS == "\\"
SP == " "

None == <<>>
Some(v) == <<v>>

RECURSIVE Join(_, _)
Join(ss, sep) ==
    IF ss = <<>> THEN <<>>
    ELSE IF Len(ss) = 1 THEN ss[1]
    ELSE ss[1] \o sep \o Join(Tail(ss), sep)

Contains(s, a) == \E i \in 1..Len(s) : s[i] = a

\* t occurs in s as a contiguous run of atoms
Occurs(s, t) ==
    \E i \in 0..(Len(s) - Len(t)) : \A j \in 1..Len(t) : s[i + j] = t[j]

RECURSIVE TextsOf(_, _)
TextsOf(A, n) ==
    IF n = 0 THEN {<<>>}
    ELSE LET shorter == TextsOf(A, n - 1)
         IN  shorter \cup {Append(t, a) : t \in shorter, a \in A}

(***************************************************************************)
(* Python's formatting of a non-negative int inside an f-string.            *)
(***************************************************************************)
Digit(d) == CASE d = 0 -> "0" [] d = 1 -> "1" [] d = 2 -> "2" [] d = 3 -> "3"
              [] d = 4 -> "4" [] d = 5 -> "5" [] d = 6 -> "6" [] d = 7 -> "7"
              [] d = 8 -> "8" [] d = 9 -> "9"

RECURSIVE FormatInt(_)
FormatInt(n) ==
    IF n < 10 THEN <<Digit(n)>>
    ELSE Append(FormatInt(n \div 10), Digit(n % 10))

(***************************************************************************)
(* PyprojectConfig.to_str                                                   *)
(***************************************************************************)
StripChars == {",", NL}

RECURSIVE LStrip(_)
LStrip(s) == IF s # <<>> /\ Head(s) \in StripChars THEN LStrip(Tail(s)) ELSE s

RECURSIVE RStrip(_)
RStrip(s) ==
    IF s # <<>> /\ s[Len(s)] \in StripChars
    THEN RStrip(SubSeq(s, 1, Len(s) - 1)) ELSE s

\* str.strip(",\n")
Strip(s) == RStrip(LStrip(s))

\* one pass of the loop body: append the entry, then strip
DepsStep(deps, dependency) ==
    Strip(deps \o <<"    ", DQ, dependency.name, dependency.version_constraints,
                    DQ, ",", NL>>)

RECURSIVE DepsLoop(_, _)
DepsLoop(deps, dependencies) ==
    IF dependencies = <<>> THEN deps
    ELSE DepsLoop(DepsStep(deps, Head(dependencies)), Tail(dependencies))

to_str(config) ==
    LET deps == DepsLoop(<<>>, config.dependencies)
    IN  <<NL, "[project]", NL,
          "name = ", DQ, config.title, DQ, NL,
          "version = ", DQ, "0.1.0", DQ, NL,
          "description = ", DQ, "Add your description here", DQ, NL,
          "requires-python = ", DQ, ">=", config.python_min_version, ",", "<",
              config.python_max_version, DQ, NL,
          "dependencies = [", NL,
          "    ">> \o deps \o <<NL, "]", NL>>

(***************************************************************************)
(* Sandbox.run_code: defaults, escaping, command assembly                   *)
(***************************************************************************)
DefaultCpus == 1
DefaultMemory == 512
DefaultProcesses == 100
DefaultRate == <<"10mb">>

\* `x or d` on an Optional[int]: None and 0 are falsy
OrInt(x, d) == IF x = None \/ x[1] = 0 THEN d ELSE x[1]

\* `x or d` on an Optional[str]: None and "" are falsy
OrStr(x, d) == IF x = None \/ x[1] = <<>> THEN d ELSE x[1]

\* str.replace("'", "'\\''")
RECURSIVE Escape(_)
Escape(text) ==
    IF text = <<>> THEN <<>>
    ELSE IF Len(text) = 1 THEN (IF text[1] = SQ THEN <<SQ, BS, SQ, SQ>> ELSE text)
    ELSE LET h == Len(text) \div 2
         IN  Escape(SubSeq(text, 1, h)) \o Escape(SubSeq(text, h + 1, Len(text)))

\* a variant that joins the assignments with `;`
get_env_exports_semicolon(environment) ==
    Join([i \in 1..Len(environment) |->
             <<"export", SP, environment[i][1], "=", SQ, environment[i][2], SQ>>],
         <<SP, ";", SP>>)

\* Sandbox._get_env_exports; environment is the dict's items in iteration order
get_env_exports(environment) ==
    Join([i \in 1..Len(environment) |->
             <<"export", SP, environment[i][1], "=", SQ, environment[i][2], SQ>>],
         <<SP, "&&", SP>>)

\* `if environment:` is false on None and on an empty dict
EnvTruthy(environment) == environment # None /\ environment[1] # <<>>

\* a variant whose container is not started with --rm
DockerPrefix_keeps_container(processes_limit, cpu_limit, memory_limit, read_rate_limit, write_rate_limit) ==
    <<"docker", SP, "run", SP, "--pids-limit", SP>> \o FormatInt(processes_limit)
    \o <<SP, "--cpus", SP>> \o FormatInt(cpu_limit)
    \o <<SP, "-m", SP>> \o FormatInt(memory_limit) \o <<"m">>
    \o <<SP, "--device-read-bps=/dev/sda:">> \o read_rate_limit
    \o <<SP, "--device-write-bps=/dev/sda:">> \o write_rate_limit
    \o <<SP, "ghcr.io/astral-sh/uv:alpine", SP, "/bin/sh", SP, "-c", SP>>

DockerPrefix(processes_limit, cpu_limit, memory_limit, read_rate_limit, write_rate_limit) ==
    <<"docker", SP, "run", SP, "--pids-limit", SP>> \o FormatInt(processes_limit)
    \o <<SP, "--cpus", SP>> \o FormatInt(cpu_limit)
    \o <<SP, "-m", SP>> \o FormatInt(memory_limit) \o <<"m">>
    \o <<SP, "--device-read-bps=/dev/sda:">> \o read_rate_limit
    \o <<SP, "--device-write-bps=/dev/sda:">> \o write_rate_limit
    \o <<SP, "--rm", SP, "ghcr.io/astral-sh/uv:alpine", SP, "/bin/sh", SP, "-c", SP>>

\* the part of both templates from mkdir to the closing quote; the backslash
\* newline pairs of the Python literal are line continuations of the literal
ScriptBody(name, pyproject_escaped, code_escaped) ==
    <<"mkdir", SP, "-p", SP, "/tmp/", name, SP, "&&", SP,
      "cat", SP, ">", SP, "/tmp/", name, "/pyproject.toml", SP, "<<", SP,
          DQ, "EOF", DQ, NL>>
    \o pyproject_escaped \o <<NL, "EOF", NL,
      "cat", SP, ">", SP, "/tmp/", name, "/script.py", SP, "<<", SP,
          DQ, "EOF", DQ, NL>>
    \o code_escaped \o <<NL, "EOF", NL,
      "cd", SP, "/tmp/", name, "/", SP, "&&", SP,
      "uv", SP, "run", SP, "script.py", NL>>

BuildCommand(name, pyproject, code, environment, cpus, memory, processes, read_rate, write_rate) ==
    LET cpu_limit == OrInt(cpus, DefaultCpus)
        memory_limit == OrInt(memory, DefaultMemory)
        processes_limit == OrInt(processes, DefaultProcesses)
        read_rate_limit == OrStr(read_rate, DefaultRate)
        write_rate_limit == OrStr(write_rate, DefaultRate)
        pyproject_escaped == Escape(pyproject)
        code_escaped == Escape(code)
        prefix == DockerPrefix(processes_limit, cpu_limit, memory_limit,
                               read_rate_limit, write_rate_limit)
    IN  IF EnvTruthy(environment)
        THEN prefix \o <<SQ, NL>> \o get_env_exports(environment[1])
             \o <<SP, "&&", SP>>
             \o ScriptBody(name, pyproject_escaped, code_escaped) \o <<SQ>>
        ELSE prefix \o <<SQ, NL>>
             \o ScriptBody(name, pyproject_escaped, code_escaped) \o <<SQ>>

(***************************************************************************)
(* The remote side: a POSIX shell reading a command text.  It is what       *)
(* paramiko's exec_command hands the assembled command to, and what         *)
(* `/bin/sh -c` runs inside the container.                                  *)
(***************************************************************************)
OpAtoms == {"&&", ">", "<<"}

Word(atoms, op) == [a |-> atoms, op |-> op]

Flush(words, cur, inWord) == IF inWord THEN Append(words, Word(cur, FALSE)) ELSE words

\* the first position from i on that holds an atom of S, or Len(s) + 1
NextIn(s, i, S) ==
    CHOOSE j \in i..(Len(s) + 1) :
        /\ j = Len(s) + 1 \/ s[j] \in S
        /\ \A k \in i..(j - 1) : s[k] \notin S

PlainSpecials == {SP, NL, SQ, DQ, BS} \cup OpAtoms

\* One logical line from position i: the words up to the first unquoted
\* newline.  ok is FALSE when a quote is still open at the end of the text.
\* Each step takes the run of ordinary atoms up to the next atom that means
\* something in the current quoting mode, then that atom.
RECURSIVE Lex(_, _, _, _, _, _)
Lex(s, i, mode, cur, inWord, words) ==
    LET j == NextIn(s, i, CASE mode = "sq" -> {SQ}
                            [] mode = "dq" -> {DQ, BS}
                            [] OTHER -> PlainSpecials)
        c == cur \o SubSeq(s, i, j - 1)
        w == inWord \/ j > i \/ mode # "plain"
        a == s[j]
    IN  CASE j > Len(s) ->
               [ok |-> mode = "plain", words |-> Flush(words, c, w), next |-> j]
          [] j <= Len(s) /\ mode = "sq" -> Lex(s, j + 1, "plain", c, TRUE, words)
          [] j <= Len(s) /\ mode = "dq" /\ a = DQ ->
               Lex(s, j + 1, "plain", c, TRUE, words)
          [] j <= Len(s) /\ mode = "dq" /\ a = BS ->
               IF j < Len(s) /\ s[j + 1] \in {DQ, BS}
               THEN Lex(s, j + 2, "dq", Append(c, s[j + 1]), TRUE, words)
               ELSE Lex(s, j + 1, "dq", Append(c, a), TRUE, words)
          [] j <= Len(s) /\ mode = "plain" /\ a = NL ->
               [ok |-> TRUE, words |-> Flush(words, c, w), next |-> j + 1]
          [] j <= Len(s) /\ mode = "plain" /\ a = SP ->
               Lex(s, j + 1, "plain", <<>>, FALSE, Flush(words, c, w))
          [] j <= Len(s) /\ mode = "plain" /\ a = SQ -> Lex(s, j + 1, "sq", c, TRUE, words)
          [] j <= Len(s) /\ mode = "plain" /\ a = DQ -> Lex(s, j + 1, "dq", c, TRUE, words)
          [] j <= Len(s) /\ mode = "plain" /\ a = BS ->
               IF j = Len(s) THEN Lex(s, j + 1, "plain", Append(c, a), TRUE, words)
               ELSE IF s[j + 1] = NL THEN Lex(s, j + 2, "plain", c, w, words)
               ELSE Lex(s, j + 2, "plain", Append(c, s[j + 1]), TRUE, words)
          [] j <= Len(s) /\ mode = "plain" /\ a \in OpAtoms ->
               Lex(s, j + 1, "plain", <<>>, FALSE,
                   Append(Flush(words, c, w), Word(<<a>>, TRUE)))

ParseLine(s, i) == Lex(s, i, "plain", <<>>, FALSE, <<>>)

\* The body of a here-document from position i: the raw lines before the
\* first line that is exactly the delimiter, each with its newline.  Without
\* such a line the body runs to the end of the text.
RECURSIVE ReadBody(_, _, _, _)
ReadBody(s, i, delim, body) ==
    LET j == NextIn(s, i, {NL})
        line == SubSeq(s, i, j - 1)
    IN  IF line = delim THEN [body |-> body, next |-> j + 1]
        ELSE IF j > Len(s) THEN [body |-> body \o line, next |-> j]
        ELSE ReadBody(s, j + 1, delim, body \o line \o <<NL>>)

IsOp(w, o) == w.op /\ w.a = <<o>>

\* the simple commands of a line, split at the && operators
RECURSIVE SplitAnd(_, _, _)
SplitAnd(words, cur, cmds) ==
    IF words = <<>> THEN Append(cmds, cur)
    ELSE IF IsOp(Head(words), "&&") THEN SplitAnd(Tail(words), <<>>, Append(cmds, cur))
    ELSE SplitAnd(Tail(words), Append(cur, Head(words)), cmds)

\* argv, the target of `>` and the delimiter of `<<` of one simple command
RECURSIVE Redirects(_, _)
Redirects(words, acc) ==
    IF words = <<>> THEN acc
    ELSE IF IsOp(Head(words), ">") /\ Len(words) >= 2
    THEN Redirects(Tail(Tail(words)), [acc EXCEPT !.out = Some(words[2].a)])
    ELSE IF IsOp(Head(words), "<<") /\ Len(words) >= 2
    THEN Redirects(Tail(Tail(words)), [acc EXCEPT !.heredoc = Some(words[2].a)])
    ELSE Redirects(Tail(words), [acc EXCEPT !.argv = Append(@, Head(words).a)])

Simple(words) == Redirects(words, [argv |-> <<>>, out |-> None, heredoc |-> None])

\* the delimiter of the first here-document of a line, or None
RECURSIVE LineHeredoc(_)
LineHeredoc(cmds) ==
    IF cmds = <<>> THEN None
    ELSE IF Simple(Head(cmds)).heredoc # None THEN Simple(Head(cmds)).heredoc
    ELSE LineHeredoc(Tail(cmds))

(***************************************************************************)
(* A machine the shell runs on: its directories and files, the shell's      *)
(* working directory, whether it has a container runtime, and what it has   *)
(* run.                                                                     *)
(***************************************************************************)
Machine(hasDocker) ==
    [dirs |-> {<<"/tmp/">>}, files |-> <<>>, cwd |-> <<"/">>, docker |-> hasDocker,
     exports |-> <<>>, runs |-> <<>>, stray |-> <<>>, containers |-> <<>>]

Parent(path) == SubSeq(path, 1, Len(path) - 1)

NormDir(path) ==
    IF Len(path) > 1 /\ path[Len(path)] = "/" THEN Parent(path) ELSE path

FileAt(m, path) == {i \in 1..Len(m.files) : m.files[i].path = path}

HasFile(m, path) == FileAt(m, path) # {}

ContentOf(m, path) == m.files[CHOOSE i \in FileAt(m, path) : TRUE].content

WriteFile(m, path, content) ==
    IF HasFile(m, path)
    THEN [m EXCEPT !.files = [i \in 1..Len(m.files) |->
             IF m.files[i].path = path THEN [path |-> path, content |-> content]
             ELSE m.files[i]]]
    ELSE [m EXCEPT !.files = Append(@, [path |-> path, content |-> content])]

\* docker run's options up to the image, then the command for the container
RECURSIVE DockerArgs(_, _)
DockerArgs(argv, acc) ==
    IF argv = <<>> THEN acc
    ELSE
    LET w == Head(argv) IN
    IF w = <<"--pids-limit">> /\ Len(argv) >= 2
    THEN DockerArgs(Tail(Tail(argv)), [acc EXCEPT !.pids = Some(argv[2])])
    ELSE IF w = <<"--cpus">> /\ Len(argv) >= 2
    THEN DockerArgs(Tail(Tail(argv)), [acc EXCEPT !.cpus = Some(argv[2])])
    ELSE IF w = <<"-m">> /\ Len(argv) >= 2
    THEN DockerArgs(Tail(Tail(argv)), [acc EXCEPT !.memory = Some(argv[2])])
    ELSE IF w # <<>> /\ Head(w) = "--device-read-bps=/dev/sda:"
    THEN DockerArgs(Tail(argv), [acc EXCEPT !.read_bps = Some(Tail(w))])
    ELSE IF w # <<>> /\ Head(w) = "--device-write-bps=/dev/sda:"
    THEN DockerArgs(Tail(argv), [acc EXCEPT !.write_bps = Some(Tail(w))])
    ELSE IF w = <<"--rm">>
    THEN DockerArgs(Tail(argv), [acc EXCEPT !.rm = TRUE])
    ELSE [acc EXCEPT !.image = Some(w), !.cmd = Tail(argv)]

DockerRun(argv) ==
    DockerArgs(argv, [pids |-> None, cpus |-> None, memory |-> None,
                      read_bps |-> None, write_bps |-> None, rm |-> FALSE,
                      image |-> None, cmd |-> <<>>])

RECURSIVE ShLoop(_, _, _)

\* the shell run of a whole command text on machine m
Sh(script, m) == ShLoop(script, 1, m)

\* one simple command on machine m; body is its here-document, if any
ExecSimple(c, body, m) ==
    LET argv == c.argv IN
    IF argv = <<>> THEN [ok |-> TRUE, m |-> m]
    ELSE IF argv[1] = <<"export">> /\ Len(argv) = 2
    THEN [ok |-> TRUE, m |-> [m EXCEPT !.exports = Append(@, argv[2])]]
    ELSE IF argv[1] = <<"mkdir">> /\ Len(argv) = 3 /\ argv[2] = <<"-p">>
    THEN [ok |-> TRUE, m |-> [m EXCEPT !.dirs = @ \cup {NormDir(argv[3])}]]
    ELSE IF argv[1] = <<"cat">> /\ Len(argv) = 1 /\ c.out # None
    THEN IF Parent(c.out[1]) \in m.dirs
         THEN [ok |-> TRUE, m |-> WriteFile(m, c.out[1], body)]
         ELSE [ok |-> FALSE, m |-> m]
    ELSE IF argv[1] = <<"cd">> /\ Len(argv) = 2
    THEN IF NormDir(argv[2]) \in m.dirs
         THEN [ok |-> TRUE, m |-> [m EXCEPT !.cwd = NormDir(argv[2])]]
         ELSE [ok |-> FALSE, m |-> m]
    ELSE IF argv = << <<"uv">>, <<"run">>, <<"script.py">> >>
    THEN [ok |-> HasFile(m, Append(m.cwd, "/script.py")),
          m |-> [m EXCEPT !.runs = Append(@, m.cwd)]]
    ELSE IF m.docker /\ Len(argv) >= 2 /\ argv[1] = <<"docker">> /\ argv[2] = <<"run">>
    THEN LET d == DockerRun(Tail(Tail(argv)))
             inside == IF Len(d.cmd) = 3 /\ d.cmd[1] = <<"/bin/sh">>
                          /\ d.cmd[2] = <<"-c">>
                       THEN Sh(d.cmd[3], Machine(FALSE))
                       ELSE Machine(FALSE)
         IN  [ok |-> TRUE,
              m |-> [m EXCEPT !.containers =
                        Append(@, [args |-> d, exited |-> inside])]]
    ELSE [ok |-> FALSE, m |-> [m EXCEPT !.stray = Append(@, argv)]]

\* the && list of one line: a command runs only if all before it succeeded
RECURSIVE ExecList(_, _, _, _)
ExecList(cmds, body, ok, m) ==
    IF cmds = <<>> \/ ~ok THEN m
    ELSE LET r == ExecSimple(Simple(Head(cmds)), body, m)
         IN  ExecList(Tail(cmds), body, r.ok, r.m)

ShLoop(s, i, m) ==
    IF i > Len(s) THEN m
    ELSE
    LET line == ParseLine(s, i) IN
    IF ~line.ok THEN [m EXCEPT !.stray = Append(@, << <<"syntax error">> >>)]
    ELSE
    LET cmds == SplitAnd(line.words, <<>>, <<>>)
        delim == LineHeredoc(cmds)
        doc == IF delim = None THEN [body |-> <<>>, next |-> line.next]
               ELSE ReadBody(s, line.next, delim[1], <<>>)
    IN  ShLoop(s, doc.next, ExecList(cmds, doc.body, TRUE, m))

(***************************************************************************)
(* SSHConnection                                                            *)
(***************************************************************************)
NoConn ==
    [state |-> "unbuilt", args |-> <<>>, password |-> "", key_file |-> None,
     is_passphrase |-> FALSE, is_connected |-> FALSE]

\* the paramiko client the connection owns, with counts of what was asked of it
NoClient ==
    [session |-> "none", auth |-> None, connects |-> 0, established |-> 0,
     calls |-> 0]

\* a variant without the fallback to the password: a passphrase always needs
\* its key file
SSHConnectionInit_no_fallback(password, passphrase, key_file) ==
    LET rejected == [ok |-> FALSE, password |-> "", key_file |-> None,
                     is_passphrase |-> FALSE]
    IN  IF password = None /\ passphrase = None THEN rejected
        ELSE IF password # None /\ passphrase = None
        THEN [ok |-> TRUE, password |-> password[1], key_file |-> None,
              is_passphrase |-> FALSE]
        ELSE IF key_file = None THEN rejected
        ELSE [ok |-> TRUE, password |-> passphrase[1], key_file |-> key_file,
              is_passphrase |-> TRUE]

\* SSHConnection.__init__: ok is FALSE where it raises ValueError
SSHConnectionInit(password, passphrase, key_file) ==
    LET rejected == [ok |-> FALSE, password |-> "", key_file |-> None,
                     is_passphrase |-> FALSE]
    IN  IF password = None /\ passphrase = None THEN rejected
        ELSE IF password # None /\ passphrase = None
        THEN [ok |-> TRUE, password |-> password[1], key_file |-> None,
              is_passphrase |-> FALSE]
        ELSE IF key_file = None
        THEN IF password # None
             THEN [ok |-> TRUE, password |-> password[1], key_file |-> None,
                   is_passphrase |-> FALSE]
             ELSE rejected
        ELSE [ok |-> TRUE, password |-> passphrase[1], key_file |-> key_file,
              is_passphrase |-> TRUE]

BuiltConn(password, passphrase, key_file) ==
    LET r == SSHConnectionInit(password, passphrase, key_file)
    IN  [state |-> IF r.ok THEN "built" ELSE "rejected",
         args |-> [password |-> password, passphrase |-> passphrase,
                   key_file |-> key_file],
         password |-> r.password, key_file |-> r.key_file,
         is_passphrase |-> r.is_passphrase, is_connected |-> FALSE]

\* a variant that sets the flag before paramiko's connect has returned
Connect_flag_first(c, cl, connectOk) ==
    IF connectOk
    THEN [conn |-> [c EXCEPT !.is_connected = TRUE],
          client |-> [cl EXCEPT
              !.connects = @ + 1,
              !.session = "open",
              !.established = @ + 1,
              !.auth = Some([mode |-> IF c.is_passphrase THEN "key" ELSE "password",
                             secret |-> c.password,
                             key_filename |-> c.key_file])],
          raised |-> None]
    ELSE [conn |-> [c EXCEPT !.is_connected = TRUE],
          client |-> [cl EXCEPT !.connects = @ + 1],
          raised |-> Some("ConnectionError")]

\* SSHConnection._connect; connectOk is whether paramiko's connect succeeds
Connect(c, cl, connectOk) ==
    LET asked == [cl EXCEPT !.connects = @ + 1] IN
    IF connectOk
    THEN [conn |-> [c EXCEPT !.is_connected = TRUE],
          client |-> [asked EXCEPT
              !.session = "open",
              !.established = @ + 1,
              !.auth = IF c.is_passphrase
                       THEN Some([mode |-> "key", secret |-> c.password,
                                  key_filename |-> c.key_file])
                       ELSE Some([mode |-> "password", secret |-> c.password,
                                  key_filename |-> None])],
          raised |-> None]
    ELSE [conn |-> c, client |-> asked, raised |-> Some("ConnectionError")]

\* the remote host as the next command finds it
NoRemote == [dirs |-> Machine(TRUE).dirs, files |-> <<>>, live |-> <<>>]

HostMachine(rem) == [Machine(TRUE) EXCEPT !.dirs = rem.dirs, !.files = rem.files]

\* the containers of a finished command that were not started with --rm
RECURSIVE Kept(_)
Kept(cs) ==
    IF cs = <<>> THEN <<>>
    ELSE (IF Head(cs).args.rm THEN <<>> ELSE <<Head(cs).exited>>) \o Kept(Tail(cs))

\* lines 98-100: the command on an established session
Exec(base, host, rem, timeout, coin) ==
    IF coin.outcome = "timeout" /\ timeout # None
    THEN [base EXCEPT
             !.ran = TRUE, !.containers = host.containers,
             !.remote = [dirs |-> host.dirs, files |-> host.files,
                         live |-> rem.live \o Kept(host.containers)],
             !.raised = Some("TimeoutError")]
    ELSE [base EXCEPT
             !.ran = TRUE, !.containers = host.containers,
             !.remote = [dirs |-> host.dirs, files |-> host.files,
                         live |-> rem.live \o Kept(host.containers)],
             !.response = Some([stderr |-> coin.stderr, stdout |-> coin.stdout])]

\* what execute_command has done once _connect, if called, is over
Connected(k, dialed, rem) ==
    [conn |-> k.conn, client |-> [k.client EXCEPT !.calls = @ + 1],
     remote |-> rem, raised |-> k.raised, response |-> None,
     dialed |-> dialed, ran |-> FALSE, containers |-> <<>>]

AfterConnect(base, rem, command, timeout, coin) ==
    IF base.raised # None THEN base
    ELSE IF base.client.session # "open"
    THEN [base EXCEPT !.raised = Some("SSHException")]
    ELSE Exec(base, Sh(command, HostMachine(rem)), rem, timeout, coin)

\* a variant without the test of the flag: every call connects
execute_command_reconnects(c, cl, rem, command, timeout, coin) ==
    AfterConnect(Connected(Connect(c, cl, coin.connectOk), TRUE, rem),
                 rem, command, timeout, coin)

\* SSHConnection.execute_command.  coin is what the network and the remote
\* program do: whether connect succeeds, whether the wait times out, and the
\* text the command prints.
execute_command(c, cl, rem, command, timeout, coin) ==
    AfterConnect(Connected(IF ~c.is_connected THEN Connect(c, cl, coin.connectOk)
                           ELSE [conn |-> c, client |-> cl, raised |-> None],
                           ~c.is_connected, rem),
                 rem, command, timeout, coin)

(***************************************************************************)
(* Sandbox                                                                  *)
(***************************************************************************)
NoSandbox == [state |-> "unbuilt", args |-> <<>>, name |-> "", pyproject |-> <<>>]

\* a path argument comes with what the local filesystem holds there
PathExists(path) == path.kind # "missing"
PathIsFile(path) == path.kind = "file"
ReadFile(path) == path.content

\* a variant that takes the config whenever one is given, path or no path
SandboxInit_prefers_config(config, pyproject_file_path) ==
    IF config # None THEN [ok |-> TRUE, pyproject |-> to_str(config[1])]
    ELSE IF pyproject_file_path = None THEN [ok |-> FALSE, pyproject |-> <<>>]
    ELSE IF ~PathExists(pyproject_file_path[1]) \/ ~PathIsFile(pyproject_file_path[1])
    THEN [ok |-> FALSE, pyproject |-> <<>>]
    ELSE [ok |-> TRUE, pyproject |-> ReadFile(pyproject_file_path[1])]

\* Sandbox.__init__: ok is FALSE where it raises ValueError
SandboxInit(config, pyproject_file_path) ==
    IF config = None /\ pyproject_file_path = None
    THEN [ok |-> FALSE, pyproject |-> <<>>]
    ELSE IF config # None /\ pyproject_file_path # None
    THEN [ok |-> FALSE, pyproject |-> <<>>]
    ELSE IF config # None /\ pyproject_file_path = None
    THEN [ok |-> TRUE, pyproject |-> to_str(config[1])]
    ELSE IF ~PathExists(pyproject_file_path[1]) \/ ~PathIsFile(pyproject_file_path[1])
    THEN [ok |-> FALSE, pyproject |-> <<>>]
    ELSE [ok |-> TRUE, pyproject |-> ReadFile(pyproject_file_path[1])]

BuiltSandbox(name, config, pyproject_file_path) ==
    LET r == SandboxInit(config, pyproject_file_path)
    IN  [state |-> IF r.ok THEN "built" ELSE "rejected",
         args |-> [config |-> config, pyproject_file_path |-> pyproject_file_path],
         name |-> IF r.ok THEN name ELSE "",
         pyproject |-> r.pyproject]

\* a variant with the two streams exchanged
CodeOutput_swapped(result) == [output |-> result.stderr, error |-> result.stdout]

\* line 173: the transport's response as the caller's result
CodeOutput(result) == [output |-> result.stdout, error |-> result.stderr]

\* line 172: the time budget handed to the transport
ForwardedTimeout(timeout) == timeout

(***************************************************************************)
(* What the last operation did, for the properties to speak of.             *)
(***************************************************************************)
NoCall ==
    [op |-> "none", request |-> <<>>, sent |-> <<>>, transport |-> <<>>,
     raised |-> None, result |-> None, ran |-> FALSE, dialed |-> FALSE,
     containers |-> <<>>]

(***************************************************************************)
(* Operations                                                               *)
(***************************************************************************)
NewSSHConnection(password, passphrase, key_file) ==
    /\ conn.state # "built"
    /\ conn' = BuiltConn(password, passphrase, key_file)
    /\ client' = NoClient
    /\ call' = [NoCall EXCEPT !.op = "SSHConnection"]
    /\ UNCHANGED <<sandbox, remote>>

NewSandbox(name, config, pyproject_file_path) ==
    /\ conn.state = "built"
    /\ sandbox.state # "built"
    /\ sandbox' = BuiltSandbox(name, config, pyproject_file_path)
    /\ call' = [NoCall EXCEPT !.op = "Sandbox"]
    /\ UNCHANGED <<conn, client, remote>>

\* Sandbox.from_connection_args: the connection first, then the sandbox
FromConnectionArgs(name, password, passphrase, key_file, config, pyproject_file_path) ==
    /\ conn.state # "built"
    /\ sandbox.state # "built"
    /\ conn' = BuiltConn(password, passphrase, key_file)
    /\ client' = NoClient
    /\ sandbox' = IF conn'.state = "built"
                  THEN BuiltSandbox(name, config, pyproject_file_path)
                  ELSE sandbox
    /\ call' = [NoCall EXCEPT !.op = "from_connection_args"]
    /\ UNCHANGED remote

CoinFits(timeout, coin) ==
    /\ conn.is_connected => coin.connectOk
    /\ coin.outcome = "timeout" => timeout # None /\ coin.stdout = <<>> /\ coin.stderr = <<>>

ExecuteCommand(command, timeout, coin) ==
    /\ conn.state = "built"
    /\ client.calls < MaxCalls
    /\ CoinFits(timeout, coin)
    /\ \E t \in {execute_command(conn, client, remote, command, timeout, coin)} :
           /\ conn' = t.conn
           /\ client' = t.client
           /\ remote' = t.remote
           /\ call' = [op |-> "execute_command",
                       request |-> [command |-> command, timeout |-> timeout],
                       sent |-> <<[command |-> command, timeout |-> timeout]>>,
                       transport |-> [raised |-> t.raised, response |-> t.response],
                       raised |-> t.raised, result |-> t.response, ran |-> t.ran,
                       dialed |-> t.dialed, containers |-> t.containers]
    /\ UNCHANGED sandbox

RunCode(code, timeout, environment, cpus, memory, processes, read_rate, write_rate, coin) ==
    /\ conn.state = "built"
    /\ sandbox.state = "built"
    /\ client.calls < MaxCalls
    /\ CoinFits(timeout, coin)
    /\ \E command \in {BuildCommand(sandbox.name, sandbox.pyproject, code,
                                    environment, cpus, memory, processes,
                                    read_rate, write_rate)},
          passed \in {ForwardedTimeout(timeout)} :
        \E t \in {execute_command(conn, client, remote, command, passed, coin)} :
           /\ conn' = t.conn
           /\ client' = t.client
           /\ remote' = t.remote
           /\ call' = [op |-> "run_code",
                       request |-> [code |-> code, timeout |-> timeout,
                                    environment |-> environment, cpus |-> cpus,
                                    memory |-> memory, processes |-> processes,
                                    read_rate |-> read_rate,
                                    write_rate |-> write_rate],
                       sent |-> <<[command |-> command, timeout |-> passed]>>,
                       transport |-> [raised |-> t.raised, response |-> t.response],
                       raised |-> t.raised,
                       result |-> IF t.raised = None
                                  THEN Some(CodeOutput(t.response[1])) ELSE None,
                       ran |-> t.ran, dialed |-> t.dialed,
                       containers |-> t.containers]
    /\ UNCHANGED sandbox

\* SSHConnection._close: the client is closed, the flag is left as it is
Close ==
    /\ conn.state = "built"
    /\ client.session = "open"
    /\ client' = [client EXCEPT !.session = "closed"]
    /\ call' = [NoCall EXCEPT !.op = "_close"]
    /\ UNCHANGED <<conn, sandbox, remote>>

(***************************************************************************)
(* Inputs                                                                   *)
(***************************************************************************)
Passwords == {None, Some("secret")}
Passphrases == {None, Some("phrase")}
KeyFiles == {None, Some("id_rsa")}
Names == {"sandbox-1"}
Timeouts == {None, Some(5)}

TextAtoms == {"x", SQ, NL, "EOF"}
Texts == TextsOf(TextAtoms, MaxTextLen)

DepValues ==
    {[name |-> "typing-extensions", version_constraints |-> "<5"],
     [name |-> "requests", version_constraints |-> ">=2"]}

RECURSIVE DepLists(_)
DepLists(n) ==
    IF n = 0 THEN {<<>>}
    ELSE LET shorter == DepLists(n - 1)
         IN  shorter \cup {Append(l, d) : l \in shorter, d \in DepValues}

Configs ==
    {[dependencies |-> l, title |-> t, python_min_version |-> "3.13",
      python_max_version |-> "4"] :
        l \in DepLists(MaxDeps), t \in {"my-project", "test-project"}}

TestConfig ==
    [dependencies |-> <<[name |-> "typing-extensions", version_constraints |-> "<5"]>>,
     title |-> "test-project", python_min_version |-> "3.13",
     python_max_version |-> "4"]

FilePath(content) == [kind |-> "file", content |-> content]
MissingPath == [kind |-> "missing", content |-> <<>>]
DirPath == [kind |-> "dir", content |-> <<>>]
CustomToml == FilePath(<<"[project]", NL, "name = ", DQ, "custom", DQ, NL>>)

Coins ==
    [connectOk : BOOLEAN, outcome : {"ok", "timeout"},
     stdout : {<<>>, <<"hello world!">>}, stderr : {<<>>, <<"Traceback">>}]

QuietCoins == {k \in Coins : k.connectOk /\ k.outcome = "ok" /\ k.stderr = <<>>}

IntOptions == {None, Some(0), Some(10)}
RateOptions == {None, Some(<<>>), Some(<<"1mb">>)}

EnvKeys == {"OPENAI_API_KEY", "PYTHONBUFFERED"}
EnvValues == {"test-key", "1"}

\* dicts over EnvKeys as their items in iteration order
Environments ==
    {<<>>} \cup {<< <<k, v>> >> : k \in EnvKeys, v \in EnvValues}
    \cup {e \in {<< <<k1, v1>>, <<k2, v2>> >> :
                     k1 \in EnvKeys, k2 \in EnvKeys, v1 \in EnvValues,
                     v2 \in EnvValues} : e[1][1] # e[2][1]}

EnvOptions == {None} \cup {Some(e) : e \in Environments}

(***************************************************************************)
(* Specifications                                                           *)
(***************************************************************************)
Init ==
    /\ conn = NoConn
    /\ client = NoClient
    /\ sandbox = NoSandbox
    /\ call = NoCall
    /\ remote = NoRemote

\* the objects as the tests build them: a password connection and a sandbox
InitBuilt ==
    /\ conn = BuiltConn(Some("secret"), None, None)
    /\ client = NoClient
    /\ sandbox \in {BuiltSandbox(n, None, Some(CustomToml)) : n \in Names}
    /\ call = NoCall
    /\ remote = NoRemote

\* construction of both objects, runs, and closing
Next ==
    \/ \E pw \in Passwords, pp \in Passphrases, kf \in KeyFiles :
           NewSSHConnection(pw, pp, kf)
    \/ \E n \in Names, c \in {None, Some(TestConfig)},
          f \in {None, Some(MissingPath), Some(DirPath), Some(CustomToml)} :
           NewSandbox(n, c, f)
    \/ \E n \in Names, pw \in Passwords, pp \in {None}, kf \in {None},
          c \in {None, Some(TestConfig)}, f \in {None, Some(CustomToml)} :
           FromConnectionArgs(n, pw, pp, kf, c, f)
    \/ \E code \in {<<"x">>}, t \in Timeouts, k \in Coins :
           RunCode(code, t, None, None, None, None, None, None, k)
    \/ Close

Spec == Init /\ [][Next]_vars

\* the transport alone
NextTransport ==
    \/ \E pw \in Passwords, pp \in Passphrases, kf \in KeyFiles :
           NewSSHConnection(pw, pp, kf)
    \/ \E t \in Timeouts, k \in Coins : ExecuteCommand(<<"ls">>, t, k)
    \/ Close

SpecTransport == Init /\ [][NextTransport]_vars

\* run_code assembles its command from its arguments and the sandbox's two
\* fields alone, so the specifications below look at the first call on a newly
\* built sandbox, over wide sets of arguments.
FirstCall == client.calls = 0

TheCoin == CHOOSE k \in QuietCoins : k.stdout # <<>>

HelloWorld == <<"print(", SQ, "hello world!", SQ, ")">>

\* run_code over every combination of resource options
NextLimits ==
    /\ FirstCall
    /\ \E cpus \in IntOptions, memory \in IntOptions, processes \in IntOptions,
          read_rate \in RateOptions, write_rate \in RateOptions :
           RunCode(HelloWorld, None, None, cpus, memory, processes, read_rate,
                   write_rate, TheCoin)

SpecLimits == InitBuilt /\ [][NextLimits]_vars

\* run_code over code texts, on sandboxes over manifest texts
InitTexts ==
    /\ conn = BuiltConn(Some("secret"), None, None)
    /\ client = NoClient
    /\ sandbox \in {BuiltSandbox(n, None, Some(FilePath(m))) : n \in Names, m \in Texts}
    /\ call = NoCall
    /\ remote = NoRemote

NextTexts ==
    /\ FirstCall
    /\ \E code \in Texts, e \in {None, Some(<< <<"PYTHONBUFFERED", "1">> >>)} :
           RunCode(code, None, e, None, None, None, None, None, TheCoin)

SpecTexts == InitTexts /\ [][NextTexts]_vars

\* run_code over environment mappings
NextEnv ==
    /\ FirstCall
    /\ \E code \in {<<>>, HelloWorld}, e \in EnvOptions, t \in Timeouts,
          k \in QuietCoins :
           RunCode(code, t, e, None, None, None, None, None, k)

SpecEnv == InitBuilt /\ [][NextEnv]_vars

\* sandboxes built from every dependency list, then run
InitManifest ==
    /\ conn = BuiltConn(Some("secret"), None, None)
    /\ client = NoClient
    /\ sandbox = NoSandbox
    /\ call = NoCall
    /\ remote = NoRemote

NextManifest ==
    \/ \E n \in Names, c \in Configs : NewSandbox(n, Some(c), None)
    \/ /\ FirstCall
       /\ \E code \in {<<>>, HelloWorld}, t \in Timeouts, k \in QuietCoins :
              RunCode(code, t, None, None, None, None, None, None, k)

SpecManifest == InitManifest /\ [][NextManifest]_vars

(***************************************************************************)
(* Properties                                                               *)
(***************************************************************************)
\* the last operation was a run_code whose command the remote host executed
Ran == call.op = "run_code" /\ call.ran

WorkDir == <<"/tmp/", sandbox.name>>
ManifestFile == Append(WorkDir, "/pyproject.toml")
ScriptFile == Append(WorkDir, "/script.py")

\* the one container of the last command, as it was when its process exited
TheContainer == call.containers[1]

Supplied(x, default) == IF x = None THEN default ELSE x[1]

\* C1: each of the five docker flags carries the caller's value when one was
\* supplied, whatever it is (0 and "" included), and the documented default
\* when it was omitted.
C1_LimitsVerbatim ==
    Ran =>
        /\ Len(call.containers) = 1
        /\ TheContainer.args.pids
             = Some(FormatInt(Supplied(call.request.processes, DefaultProcesses)))
        /\ TheContainer.args.cpus
             = Some(FormatInt(Supplied(call.request.cpus, DefaultCpus)))
        /\ TheContainer.args.memory
             = Some(Append(FormatInt(Supplied(call.request.memory, DefaultMemory)), "m"))
        /\ TheContainer.args.read_bps
             = Some(Supplied(call.request.read_rate, DefaultRate))
        /\ TheContainer.args.write_bps
             = Some(Supplied(call.request.write_rate, DefaultRate))

\* C2: after the outer shell has stripped the quoted sh -c argument and the
\* inner shell has read the two here-documents, script.py holds the code text
\* and pyproject.toml holds the manifest text, byte for byte.
C2_RoundTrip ==
    Ran =>
        /\ Len(call.containers) = 1
        /\ TheContainer.exited.stray = <<>>
        /\ HasFile(TheContainer.exited, ScriptFile)
        /\ ContentOf(TheContainer.exited, ScriptFile) = call.request.code
        /\ HasFile(TheContainer.exited, ManifestFile)
        /\ ContentOf(TheContainer.exited, ManifestFile) = sandbox.pyproject

\* the text `export K='V'` per item, joined by ` && `, in the items' order
RECURSIVE ExportText(_)
ExportText(items) ==
    IF items = <<>> THEN <<>>
    ELSE <<"export", SP, Head(items)[1], "=", SQ, Head(items)[2], SQ>>
         \o (IF Len(items) = 1 THEN <<>>
             ELSE <<SP, "&&", SP>> \o ExportText(Tail(items)))

CountOf(s, a) == Cardinality({i \in 1..Len(s) : s[i] = a})

\* C3: with a non-empty environment the command holds one export K='V' per
\* entry, joined by ` && `, in the mapping's order; with an empty or absent
\* environment it holds no export at all.
C3_EnvExports ==
    call.op = "run_code" =>
        LET e == call.request.environment
            command == call.sent[1].command
        IN  IF e # None /\ e[1] # <<>>
            THEN /\ Occurs(command, ExportText(e[1]))
                 /\ CountOf(command, "export") = Len(e[1])
            ELSE ~Contains(command, "export")

C3_Witness ==
    /\ Ran
    /\ call.request.environment # None
    /\ Len(call.request.environment[1]) = 2
    /\ Len(TheContainer.exited.exports) = 2

Given(x) == x # None

C6_ManifestSource ==
    sandbox.state \in {"built", "rejected"} =>
        LET c == sandbox.args.config
            f == sandbox.args.pyproject_file_path
        IN  /\ Given(c) /\ ~Given(f)
                 => sandbox.state = "built" /\ sandbox.pyproject = to_str(c[1])
            /\ ~Given(c) /\ Given(f) /\ f[1].kind = "file"
                 => sandbox.state = "built" /\ sandbox.pyproject = f[1].content
            /\ ~Given(c) /\ Given(f) /\ f[1].kind # "file"
                 => sandbox.state = "rejected"
            /\ Given(c) = Given(f) => sandbox.state = "rejected"

C6_Witness ==
    /\ sandbox.state = "built"
    /\ ~Given(sandbox.args.config)
    /\ sandbox.pyproject = CustomToml.content

\* C7: run_code hands the transport one command with the caller's timeout,
\* and either the transport raised and run_code raises the same with no
\* result, or it returned and the result's output is its stdout and the
\* result's error is its stderr.
C7_OneCallFullResult ==
    call.op = "run_code" =>
        /\ Len(call.sent) = 1
        /\ call.sent[1].timeout = call.request.timeout
        /\ \/ /\ call.transport.raised # None
              /\ call.raised = call.transport.raised
              /\ call.result = None
           \/ /\ call.transport.raised = None
              /\ call.raised = None
              /\ call.result
                   = Some([output |-> call.transport.response[1].stdout,
                           error |-> call.transport.response[1].stderr])

C7_Witness ==
    /\ call.op = "run_code"
    /\ call.request.timeout # None
    /\ call.result = Some([output |-> <<"hello world!">>, error |-> <<>>])

RECURSIVE TomlItems(_, _, _, _)
TomlItems(s, i, entries, needComma) ==
    IF i > Len(s) THEN [ok |-> FALSE, entries |-> entries]
    ELSE IF s[i] \in {NL, "    "} THEN TomlItems(s, i + 1, entries, needComma)
    ELSE IF s[i] = "]" THEN [ok |-> TRUE, entries |-> entries]
    ELSE IF s[i] = "," /\ needComma THEN TomlItems(s, i + 1, entries, FALSE)
    ELSE IF s[i] = DQ /\ ~needComma /\ NextIn(s, i + 1, {DQ}) <= Len(s)
    THEN TomlItems(s, NextIn(s, i + 1, {DQ}) + 1,
                   Append(entries, SubSeq(s, i + 1, NextIn(s, i + 1, {DQ}) - 1)),
                   TRUE)
    ELSE [ok |-> FALSE, entries |-> entries]

TomlDependencies(text) ==
    TomlItems(text, NextIn(text, 1, {"dependencies = ["}) + 1, <<>>, FALSE)

\* C9: the manifest's dependency array has one quoted entry per dependency,
\* in order, each the name directly followed by the constraint, a comma
\* between consecutive entries; the runtime range reads >=min,<max.
C9_DependencyArray ==
    sandbox.state = "built" /\ Given(sandbox.args.config) =>
        LET config == sandbox.args.config[1]
            array == TomlDependencies(sandbox.pyproject)
        IN  /\ array.ok
            /\ array.entries
                 = [i \in 1..Len(config.dependencies) |->
                      <<config.dependencies[i].name,
                        config.dependencies[i].version_constraints>>]
            /\ Occurs(sandbox.pyproject,
                      <<"requires-python = ", DQ, ">=", config.python_min_version,
                        ",", "<", config.python_max_version, DQ, NL>>)

\* C10: the flag is set only once a session has been established; a failed
\* establishment raises, runs nothing and leaves the flag unset, and an
\* execute_command that finds the flag unset tries to establish the session.
C10_FlagMeansEstablished ==
    /\ [](conn.is_connected => client.established >= 1)
    /\ [](call.op = "execute_command" /\ call.raised = Some("ConnectionError")
             => ~call.ran /\ call.result = None /\ ~conn.is_connected)
    /\ [][conn.state = "built" /\ ~conn.is_connected
            /\ client'.calls = client.calls + 1
            => client'.connects = client.connects + 1]_vars

C10_Witness ==
    /\ client.connects = 2
    /\ client.established = 1
    /\ conn.is_connected
    /\ call.op = "execute_command"
    /\ call.ran

=============================================================================
